---------------------------- MODULE Spec2Model ----------------------------
(***************************************************************************)
(* A model of the EDIFACT INVOIC generator of src/source/invoic.py.        *)
(*                                                                         *)
(* Text is modelled as it is in the program: a string is a sequence of     *)
(* one-character strings, a rendered segment is such a string, and the     *)
(* message is the segments joined with the line separator.  Decimal values *)
(* are pairs (coefficient c, exponent e) standing for c * 10^e, as in      *)
(* Python's decimal module.                                                *)
(***************************************************************************)
EXTENDS Integers, Sequences, FiniteSets, TLC

VARIABLES
    cfg,            \* the generator's configuration (EDIFACTGenerator.__init__)
    data,           \* the caller's invoice record
    args,           \* the other arguments of generate_invoic
    pc,             \* position inside generate_invoic
    segments,       \* the local list `segments`
    totals,         \* total_amount and total_tax returned by _process_items
    message,        \* the local edifact_message (<<>> until assembled)
    error,          \* the error raised, "none" while none is
    fs,             \* the output file: whether it exists, and its content
    esc_in,         \* the argument of a single _escape_segment_value call
    esc_out,        \* its result
    now,            \* what datetime.datetime.now() shows, as "%y%m%d:%H%M"
    earlier         \* the text an earlier call with the same arguments
                    \* returned (<<>> while there was none)

vars ==
    <<cfg, data, args, pc, segments, totals, message, error, fs, esc_in,
      esc_out, now, earlier>>

(***************************************************************************)
(* Bounds of the model.                                                    *)
(***************************************************************************)
MaxLen == 3         \* longest string handed to a single escape call
MaxItems == 2       \* most line items of an invoice

(***************************************************************************)
(* Characters.                                                             *)
(***************************************************************************)
NL == "\n"
RELEASE == "?"

LowerSeq == <<"a","b","c","d","e","f","g","h","i","j","k","l","m",
              "n","o","p","q","r","s","t","u","v","w","x","y","z">>
UpperSeq == <<"A","B","C","D","E","F","G","H","I","J","K","L","M",
              "N","O","P","Q","R","S","T","U","V","W","X","Y","Z">>
Digits == <<"0","1","2","3","4","5","6","7","8","9">>

Range(s) == {s[i] : i \in DOMAIN s}

LowerLetters == Range(LowerSeq)
UpperLetters == Range(UpperSeq)
DigitChars == Range(Digits)

\* str.strip() and the regular expression class \s: the whitespace characters
Whitespace == {" ", "\n", "\t", "\r"}

\* str.upper() on one character
UpperChar(c) ==
    IF c \in LowerLetters
    THEN UpperSeq[CHOOSE i \in DOMAIN LowerSeq : LowerSeq[i] = c]
    ELSE c

\* str.upper()
Upper(s) == [i \in DOMAIN s |-> UpperChar(s[i])]

\* str.strip(): leading and trailing whitespace removed
RECURSIVE LStrip(_)
LStrip(s) ==
    IF s # <<>> /\ Head(s) \in Whitespace THEN LStrip(Tail(s)) ELSE s

RECURSIVE RStrip(_)
RStrip(s) ==
    IF s # <<>> /\ s[Len(s)] \in Whitespace
    THEN RStrip(SubSeq(s, 1, Len(s) - 1))
    ELSE s

Strip(s) == RStrip(LStrip(s))

\* value.replace(old, new) for a one-character `old`
RECURSIVE Replace(_, _, _)
Replace(s, old, new) ==
    IF s = <<>> THEN <<>>
    ELSE IF Head(s) = old THEN new \o Replace(Tail(s), old, new)
    ELSE <<Head(s)>> \o Replace(Tail(s), old, new)

\* sep.join(parts)
RECURSIVE Join(_, _)
Join(parts, sep) ==
    IF parts = <<>> THEN <<>>
    ELSE IF Len(parts) = 1 THEN parts[1]
    ELSE parts[1] \o sep \o Join(Tail(parts), sep)

\* text.split(sep) for a one-character sep
RECURSIVE Split(_, _)
Split(s, sep) ==
    IF \A i \in DOMAIN s : s[i] # sep THEN <<s>>
    ELSE LET k == CHOOSE i \in DOMAIN s :
                      s[i] = sep /\ \A j \in 1..(i - 1) : s[j] # sep
         IN  <<SubSeq(s, 1, k - 1)>> \o Split(SubSeq(s, k + 1, Len(s)), sep)

(***************************************************************************)
(* EDIFACTValidator.sanitize_value.  max_length = 0 stands for None.       *)
(***************************************************************************)
sanitize_value(value, uppercase, max_length) ==
    LET stripped == Strip(value)
        cased == IF uppercase THEN Upper(stripped) ELSE stripped
    IN  IF max_length > 0 /\ Len(cased) > max_length
        THEN SubSeq(cased, 1, max_length)
        ELSE cased

(***************************************************************************)
(* EDIFACTGenerator._escape_segment_value: five replacements in a row, the *)
(* second of the literal apostrophe and the last of the space.             *)
(***************************************************************************)
_escape_segment_value(value) ==
    LET v1 == Replace(value, "?", <<"?", "?">>)
        v2 == Replace(v1, "'", <<"?", "'">>)
        v3 == Replace(v2, cfg.data_separator, <<"?", cfg.data_separator>>)
        v4 == Replace(v3, cfg.component_separator,
                      <<"?", cfg.component_separator>>)
        v5 == Replace(v4, " ", <<"?", " ">>)
    IN  v5

\* EDIFACTGenerator._build_segment
_build_segment(segment_id, elements) ==
    segment_id \o <<cfg.data_separator>>
        \o Join(elements, <<cfg.data_separator>>)
        \o <<cfg.segment_terminator>>

(***************************************************************************)
(* decimal.Decimal: [c |-> coefficient, e |-> exponent] is c * 10^e.       *)
(***************************************************************************)
RECURSIVE Pow10(_)
Pow10(n) == IF n <= 0 THEN 1 ELSE 10 * Pow10(n - 1)

IsDigits(s) == s # <<>> /\ \A i \in DOMAIN s : s[i] \in DigitChars

DigitVal(ch) == (CHOOSE i \in DOMAIN Digits : Digits[i] = ch) - 1

RECURSIVE NatOf(_)
NatOf(s) ==
    IF s = <<>> THEN 0
    ELSE 10 * NatOf(SubSeq(s, 1, Len(s) - 1)) + DigitVal(s[Len(s)])

\* str(n) for a natural number n
RECURSIVE NatStr(_)
NatStr(n) ==
    IF n < 10 THEN <<Digits[n + 1]>>
    ELSE NatStr(n \div 10) \o <<Digits[(n % 10) + 1]>>

\* first position of a character of `chars` in s, 0 when there is none
FirstOf(s, chars) ==
    IF \E i \in DOMAIN s : s[i] \in chars
    THEN CHOOSE i \in DOMAIN s :
             s[i] \in chars /\ \A j \in 1..(i - 1) : s[j] \notin chars
    ELSE 0

\* the pieces of a numeric string: sign, integer digits, fraction digits,
\* exponent sign and exponent digits
Unsigned(s) == IF s # <<>> /\ Head(s) \in {"-", "+"} THEN Tail(s) ELSE s

MantissaParts(mant, dot) ==
    [int |-> IF dot = 0 THEN mant ELSE SubSeq(mant, 1, dot - 1),
     frac |-> IF dot = 0 THEN <<>> ELSE SubSeq(mant, dot + 1, Len(mant))]

SignedParts(neg, mant, hasExp, expo) ==
    [neg |-> neg,
     mant |-> MantissaParts(mant, FirstOf(mant, {"."})),
     hasExp |-> hasExp,
     expNeg |-> expo # <<>> /\ Head(expo) = "-",
     expDigits |-> Unsigned(expo)]

BodyParts(neg, body, ePos) ==
    SignedParts(neg,
                IF ePos = 0 THEN body ELSE SubSeq(body, 1, ePos - 1),
                ePos # 0,
                IF ePos = 0 THEN <<>> ELSE SubSeq(body, ePos + 1, Len(body)))

UnsignedParts(neg, body) == BodyParts(neg, body, FirstOf(body, {"E", "e"}))

DecimalParts(s) == UnsignedParts(s # <<>> /\ Head(s) = "-", Unsigned(s))

\* whether the pieces make a number
PartsValid(p) ==
    /\ p.mant.int \o p.mant.frac # <<>>
    /\ \A i \in DOMAIN p.mant.int : p.mant.int[i] \in DigitChars
    /\ \A i \in DOMAIN p.mant.frac : p.mant.frac[i] \in DigitChars
    /\ p.hasExp => IsDigits(p.expDigits)

\* whether Decimal(s) succeeds (no InvalidOperation) on a numeric string
IsDecimal(s) == PartsValid(DecimalParts(s))

Signed(neg, mag) == IF neg THEN 0 - mag ELSE mag

PartsValue(p) ==
    [c |-> Signed(p.neg, NatOf(p.mant.int \o p.mant.frac)),
     e |-> (IF p.hasExp THEN Signed(p.expNeg, NatOf(p.expDigits)) ELSE 0)
               - Len(p.mant.frac)]

\* Decimal(s)
Decimal(s) == PartsValue(DecimalParts(s))

\* a * b
DecMul(a, b) == [c |-> a.c * b.c, e |-> a.e + b.e]

\* a + b: the result takes the smaller exponent
DecAdd(a, b) ==
    LET e == IF a.e < b.e THEN a.e ELSE b.e
    IN  [c |-> a.c * Pow10(a.e - e) + b.c * Pow10(b.e - e), e |-> e]

\* a / Decimal("100"): exact, the exponent lowered only as far as needed
DecDiv100(a) ==
    IF a.c % 100 = 0 THEN [c |-> a.c \div 100, e |-> a.e]
    ELSE IF a.c % 10 = 0 THEN [c |-> a.c \div 10, e |-> a.e - 1]
    ELSE [c |-> a.c, e |-> a.e - 2]

\* a < b for a, b >= 0, on the digits of the coefficients brought to the
\* smaller exponent
DecLess(a, b) ==
    LET e == IF a.e < b.e THEN a.e ELSE b.e
        da == NatStr(a.c) \o [i \in 1..(a.e - e) |-> "0"]
        db == NatStr(b.c) \o [i \in 1..(b.e - e) |-> "0"]
    IN  IF b.c = 0 THEN FALSE
        ELSE IF a.c = 0 THEN TRUE
        ELSE IF Len(da) # Len(db) THEN Len(da) < Len(db)
        ELSE \E i \in DOMAIN da :
                 /\ DigitVal(da[i]) < DigitVal(db[i])
                 /\ \A j \in 1..(i - 1) : da[j] = db[j]

\* str(d) for d >= 0: plain notation when the exponent is <= 0 and the value
\* is not too small, scientific notation otherwise
DecimalStr(d) ==
    LET digs == NatStr(d.c)
        leftdigits == d.e + Len(digs)
        dotplace == IF d.e <= 0 /\ leftdigits > -6 THEN leftdigits ELSE 1
        zeros(n) == [i \in 1..n |-> "0"]
        intpart == IF dotplace <= 0 THEN <<"0">>
                   ELSE IF dotplace >= Len(digs)
                        THEN digs \o zeros(dotplace - Len(digs))
                        ELSE SubSeq(digs, 1, dotplace)
        fracpart == IF dotplace <= 0 THEN <<".">> \o zeros(0 - dotplace) \o digs
                    ELSE IF dotplace >= Len(digs) THEN <<>>
                         ELSE <<".">> \o SubSeq(digs, dotplace + 1, Len(digs))
        ex == leftdigits - dotplace
        exppart == IF ex = 0 THEN <<>>
                   ELSE IF ex > 0 THEN <<"E", "+">> \o NatStr(ex)
                        ELSE <<"E", "-">> \o NatStr(0 - ex)
    IN  intpart \o fracpart \o exppart

\* the coefficient of d at exponent -places, rounded half to even: the
\* rounding of the default decimal context, which format() uses
QuantizeHalfEven(d, places) ==
    IF d.e >= 0 - places THEN d.c * Pow10(d.e + places)
    ELSE LET unit == Pow10(0 - places - d.e)
             q == d.c \div unit
             r == d.c % unit
         IN  IF 2 * r > unit \/ (2 * r = unit /\ q % 2 = 1) THEN q + 1 ELSE q

\* a coefficient at exponent -places written in fixed-point notation
FixedStr(coef, places) ==
    LET digs == NatStr(coef)
        padded == [i \in 1..(places + 1 - Len(digs)) |-> "0"] \o digs
        n == Len(padded)
    IN  IF places = 0 THEN digs
        ELSE SubSeq(padded, 1, n - places) \o <<".">>
                 \o SubSeq(padded, n - places + 1, n)

\* f"{d:.{precision}f}" for d >= 0
FormatFixed(d, places) == FixedStr(QuantizeHalfEven(d, places), places)

(***************************************************************************)
(* EDIFACTConfig: the program's constants.                                 *)
(***************************************************************************)
DEFAULT_PRECISION == 2
MAX_PRODUCT_CODE_LENGTH == 35
MAX_DESCRIPTION_LENGTH == 70
MAX_NAME_LENGTH == 35
MAX_ADDRESS_LINE_LENGTH == 35
MAX_CITY_LENGTH == 35
MAX_COUNTRY_LENGTH == 3
MAX_QUANTITY == [c |-> 999999, e |-> 0]
MAX_PRICE == [c |-> 999999999, e |-> -2]
NO_MAX == [c |-> -1, e |-> 0]

UNOA == <<"U","N","O","A">>
UNOB == <<"U","N","O","B">>
DEFAULT_EDI_VERSION == <<"D",":","9","6","A",":","U","N">>
INVOIC_DOCUMENT_TYPE == <<"3","8","0">>
ORIGINAL_DOCUMENT == <<"9">>
VAT_TAX_CATEGORY == <<"V","A","T">>
BANK_TRANSFER_PAYMENT == <<"5">>
CREDIT_CARD_PAYMENT == <<"1">>
CASH_PAYMENT == <<"1","0">>
VALID_PARTY_QUALIFIERS ==
    {<<"B","Y">>, <<"S","U">>, <<"I","V">>, <<"D","P">>, <<"P","E">>}
VALID_PAYMENT_METHODS ==
    {BANK_TRANSFER_PAYMENT, CREDIT_CARD_PAYMENT, CASH_PAYMENT}
VALID_CURRENCIES ==
    {<<"U","S","D">>, <<"E","U","R">>, <<"G","B","P">>, <<"J","P","Y">>,
     <<"C","A","D">>, <<"A","U","D">>, <<"C","H","F">>, <<"C","N","Y">>}
VALID_COUNTRIES ==
    {<<"U","S">>, <<"G","B">>, <<"F","R">>, <<"D","E">>, <<"I","T">>,
     <<"E","S">>, <<"N","L">>, <<"B","E">>, <<"C","N">>, <<"J","P">>,
     <<"A","U">>, <<"C","A">>}
UNOA_ALLOWED_CHARS ==
    UpperLetters \cup DigitChars
        \cup {" ", "-", ".", "&", "'", "(", ")", "+", ",", ":", ";", "=",
              "?", "@"}
SEGMENT_UNB == <<"U","N","B">>
SEGMENT_UNH == <<"U","N","H">>
SEGMENT_BGM == <<"B","G","M">>
SEGMENT_DTM == <<"D","T","M">>
SEGMENT_NAD == <<"N","A","D">>
SEGMENT_CUX == <<"C","U","X">>
SEGMENT_RFF == <<"R","F","F">>
SEGMENT_LIN == <<"L","I","N">>
SEGMENT_IMD == <<"I","M","D">>
SEGMENT_QTY == <<"Q","T","Y">>
SEGMENT_PRI == <<"P","R","I">>
SEGMENT_TAX == <<"T","A","X">>
SEGMENT_MOA == <<"M","O","A">>
SEGMENT_PAT == <<"P","A","T">>
SEGMENT_ALC == <<"A","L","C">>
SEGMENT_UNT == <<"U","N","T">>
SEGMENT_UNZ == <<"U","N","Z">>

Has(rec, key) == key \in DOMAIN rec

(***************************************************************************)
(* EDIFACTValidator: each check is TRUE when the code does not raise.      *)
(***************************************************************************)
\* the character class of validate_alphanumeric's regular expression
AlnumClass ==
    LowerLetters \cup UpperLetters \cup DigitChars \cup Whitespace
        \cup {"_", "-", ".", "@", "#", "&"}

validate_alphanumeric(value) ==
    value # <<>> /\ \A i \in DOMAIN value : value[i] \in AlnumClass

validate_character_set(value, character_set) ==
    character_set = UNOA => Range(Upper(value)) \subseteq UNOA_ALLOWED_CHARS

\* the pattern ^\d{8}$: `$` also matches before one trailing line break
MatchesEightDigits(s) ==
    \/ Len(s) = 8 /\ IsDigits(s)
    \/ Len(s) = 9 /\ IsDigits(SubSeq(s, 1, 8)) /\ s[9] = NL

DaysInMonth(y, m) ==
    IF m \in {4, 6, 9, 11} THEN 30
    ELSE IF m = 2
         THEN (IF (y % 4 = 0 /\ y % 100 # 0) \/ y % 400 = 0 THEN 29 ELSE 28)
         ELSE 31

\* validate_date with the format %Y%m%d
validate_date(date_str) ==
    LET s == Strip(date_str)
        y == NatOf(SubSeq(s, 1, 4))
        m == NatOf(SubSeq(s, 5, 6))
        d == NatOf(SubSeq(s, 7, 8))
    IN  /\ MatchesEightDigits(s)
        /\ y >= 1
        /\ m \in 1..12
        /\ d \in 1..DaysInMonth(y, m)

\* the comparisons of validate_positive_number: below zero, above max_value
NumberInRange(num, max_value) ==
    /\ ~ (num.c < 0)
    /\ max_value # NO_MAX => ~ DecLess(max_value, num)

NumberValid(s, max_value) ==
    IsDecimal(s) /\ NumberInRange(Decimal(s), max_value)

\* rejects only a value below zero (or above max_value): zero passes
validate_positive_number(value, max_value) ==
    NumberValid(Strip(value), max_value)

\* validate_party: the first check that raises, "ok" when none does
validate_party(party, character_set) ==
    LET qualifier == sanitize_value(party.qualifier, TRUE, 0)
        party_id == sanitize_value(party.id, FALSE, 0)
        name == sanitize_value(party.name, TRUE, MAX_NAME_LENGTH)
        country == sanitize_value(party.country, TRUE, 0)
    IN  IF ~ validate_character_set(qualifier, character_set)
             \/ ~ validate_character_set(party_id, character_set)
        THEN "invalid_characters"
        ELSE IF qualifier \notin VALID_PARTY_QUALIFIERS
        THEN "invalid_party_qualifier"
        ELSE IF party_id = <<>> THEN "empty_party_id"
        ELSE IF Has(party, "name")
                /\ (~ validate_alphanumeric(name)
                    \/ ~ validate_character_set(name, character_set))
        THEN "invalid_characters"
        ELSE IF Has(party, "country")
                /\ ~ validate_character_set(country, character_set)
        THEN "invalid_characters"
        ELSE IF Has(party, "country") /\ country \notin VALID_COUNTRIES
        THEN "invalid_country"
        ELSE "ok"

\* validate_item
validate_item(item, character_set) ==
    LET product_code == sanitize_value(item.product_code, TRUE, 0)
        description == sanitize_value(item.description, TRUE, 0)
        unit == sanitize_value(item.unit, TRUE, 0)
    IN  IF ~ validate_alphanumeric(product_code)
             \/ ~ validate_alphanumeric(description)
             \/ ~ validate_character_set(product_code, character_set)
             \/ ~ validate_character_set(description, character_set)
        THEN "invalid_characters"
        ELSE IF Len(product_code) > MAX_PRODUCT_CODE_LENGTH
        THEN "product_code_too_long"
        ELSE IF Len(description) > MAX_DESCRIPTION_LENGTH
        THEN "description_too_long"
        ELSE IF ~ validate_positive_number(item.quantity, MAX_QUANTITY)
        THEN "invalid_quantity"
        ELSE IF ~ validate_positive_number(item.price, MAX_PRICE)
        THEN "invalid_price"
        ELSE IF Has(item, "tax_rate")
                /\ ~ validate_positive_number(item.tax_rate, NO_MAX)
        THEN "invalid_tax_rate"
        ELSE IF Has(item, "unit")
                /\ (~ validate_alphanumeric(unit)
                    \/ ~ validate_character_set(unit, character_set))
        THEN "invalid_characters"
        ELSE "ok"

\* validate_allowance_charge
validate_allowance_charge(allowance, character_set) ==
    LET indicator == sanitize_value(allowance.indicator, TRUE, 0)
        description == sanitize_value(allowance.description, TRUE, 0)
    IN  IF indicator \notin {<<"A">>, <<"C">>} THEN "invalid_indicator"
        ELSE IF ~ validate_positive_number(allowance.amount, NO_MAX)
        THEN "invalid_amount"
        ELSE IF Has(allowance, "description")
                /\ (~ validate_alphanumeric(description)
                    \/ ~ validate_character_set(description, character_set))
        THEN "invalid_characters"
        ELSE "ok"

\* the result of the first element that fails, "ok" when none does
FirstError(results) ==
    IF \A i \in DOMAIN results : results[i] = "ok" THEN "ok"
    ELSE results[CHOOSE i \in DOMAIN results :
                     results[i] # "ok"
                     /\ \A j \in 1..(i - 1) : results[j] = "ok"]

(***************************************************************************)
(* EDIFACTValidator.JSON_SCHEMA, for records whose leaves are strings: the *)
(* required keys, minLength, pattern, enum and minItems rules.             *)
(***************************************************************************)
SchemaParty(party) ==
    /\ Has(party, "qualifier") /\ Has(party, "id")
    /\ party.qualifier \in VALID_PARTY_QUALIFIERS
    /\ Len(party.id) >= 1
    /\ Has(party, "country") => party.country \in VALID_COUNTRIES

SchemaItem(item) ==
    /\ {"product_code", "description", "quantity", "price"}
           \subseteq DOMAIN item
    /\ Len(item.product_code) >= 1
    /\ Len(item.description) >= 1

SchemaAllowance(allowance) ==
    /\ Has(allowance, "indicator") /\ Has(allowance, "amount")
    /\ allowance.indicator \in {<<"A">>, <<"C">>}

SchemaValid(d) ==
    /\ {"message_ref", "invoice_number", "invoice_date", "parties", "items"}
           \subseteq DOMAIN d
    /\ Len(d.message_ref) >= 1
    /\ Len(d.invoice_number) >= 1
    /\ MatchesEightDigits(d.invoice_date)
    /\ Has(d, "currency") => d.currency \in VALID_CURRENCIES
    /\ Has(d, "reference") => Len(d.reference) >= 1
    /\ Len(d.parties) >= 2
    /\ \A i \in DOMAIN d.parties : SchemaParty(d.parties[i])
    /\ Len(d.items) >= 1
    /\ \A i \in DOMAIN d.items : SchemaItem(d.items[i])
    /\ Has(d, "payment_terms") =>
           /\ Has(d.payment_terms, "due_date") =>
                  MatchesEightDigits(d.payment_terms.due_date)
           /\ Has(d.payment_terms, "method") =>
                  d.payment_terms.method \in VALID_PAYMENT_METHODS
    /\ Has(d, "allowances_charges") =>
           \A i \in DOMAIN d.allowances_charges :
               SchemaAllowance(d.allowances_charges[i])

(***************************************************************************)
(* EDIFACTGenerator._validate_invoice_data: the first check that raises,   *)
(* "ok" when the record passes.                                            *)
(***************************************************************************)
_validate_invoice_data(d, character_set) ==
    LET message_ref == sanitize_value(d.message_ref, FALSE, 0)
        party_qualifiers ==
            {sanitize_value(d.parties[i].qualifier, TRUE, 0) :
                 i \in DOMAIN d.parties}
        parties == FirstError([i \in DOMAIN d.parties |->
                       validate_party(d.parties[i], character_set)])
        items == FirstError([i \in DOMAIN d.items |->
                     validate_item(d.items[i], character_set)])
        method == sanitize_value(d.payment_terms.method, FALSE, 0)
        currency == sanitize_value(d.currency, TRUE, 0)
        reference == sanitize_value(d.reference, FALSE, 0)
        allowances == FirstError([i \in DOMAIN d.allowances_charges |->
                          validate_allowance_charge(d.allowances_charges[i],
                                                    character_set)])
    IN  IF ~ SchemaValid(d) THEN "invalid_json_structure"
        ELSE IF ~ validate_alphanumeric(message_ref)
                \/ ~ validate_character_set(message_ref, character_set)
        THEN "invalid_characters"
        ELSE IF ~ validate_date(d.invoice_date) THEN "invalid_invoice_date"
        ELSE IF ~ ({<<"B","Y">>, <<"S","U">>} \subseteq party_qualifiers)
        THEN "missing_party_qualifiers"
        ELSE IF Cardinality(party_qualifiers) # Len(d.parties)
        THEN "duplicate_party_qualifiers"
        ELSE IF parties # "ok" THEN parties
        ELSE IF Len(d.items) = 0 THEN "no_items"
        ELSE IF items # "ok" THEN items
        ELSE IF Has(d, "payment_terms") /\ Has(d.payment_terms, "due_date")
                /\ ~ validate_date(d.payment_terms.due_date)
        THEN "invalid_due_date"
        ELSE IF Has(d, "payment_terms") /\ Has(d.payment_terms, "method")
                /\ method \notin VALID_PAYMENT_METHODS
        THEN "invalid_payment_method"
        ELSE IF Has(d, "currency")
                /\ ~ validate_character_set(currency, character_set)
        THEN "invalid_characters"
        ELSE IF Has(d, "currency") /\ currency \notin VALID_CURRENCIES
        THEN "invalid_currency"
        ELSE IF Has(d, "reference")
                /\ (~ validate_alphanumeric(reference)
                    \/ ~ validate_character_set(reference, character_set))
        THEN "invalid_characters"
        ELSE IF Has(d, "allowances_charges") /\ allowances # "ok"
        THEN allowances
        ELSE "ok"

(***************************************************************************)
(* EDIFACTGenerator: the segment builders.                                 *)
(***************************************************************************)
CS == <<cfg.component_separator>>

\* `interchange_control_ref or sanitize_value(data["message_ref"])`: None and
\* the empty string are both written <<>>
ControlRef(d, interchange_control_ref) ==
    IF interchange_control_ref # <<>> THEN interchange_control_ref
    ELSE sanitize_value(d.message_ref, FALSE, 0)

_generate_interchange_header(d, interchange_control_ref, application_ref, character_set, timestamp) ==
    LET control_ref == ControlRef(d, interchange_control_ref)
        app_ref == IF application_ref # <<>> THEN application_ref
                   ELSE <<"P","Y","E","D","I","F","A","C","T">>
    IN  _build_segment(SEGMENT_UNB,
            << <<"U","N","O","C">> \o CS \o <<"3">>,
               app_ref \o CS \o control_ref,
               <<"R","E","C","E","I","V","E","R">> \o CS \o <<"0","0","1">>,
               timestamp,
               control_ref,
               <<"1">> \o CS \o character_set >>)

_generate_message_header(d, edi_version, character_set) ==
    _build_segment(SEGMENT_UNH,
        << _escape_segment_value(sanitize_value(d.message_ref, FALSE, 0)),
           <<"I","N","V","O","I","C">> \o CS \o edi_version \o CS
               \o character_set >>)

\* the BGM segment of generate_invoic
BgmSegment(d) ==
    _build_segment(SEGMENT_BGM,
        << INVOIC_DOCUMENT_TYPE,
           _escape_segment_value(sanitize_value(d.invoice_number, FALSE, 0)),
           ORIGINAL_DOCUMENT >>)

\* the DTM segment of generate_invoic: the invoice date as given
DtmSegment(d) ==
    _build_segment(SEGMENT_DTM,
        << <<"1","3","7">> \o CS \o d.invoice_date \o CS \o <<"1","0","2">> >>)

\* the CUX segment: the currency as given
CuxSegment(d) ==
    _build_segment(SEGMENT_CUX,
        << <<"2">> \o CS \o d.currency \o CS \o <<"9">> >>)

RffSegment(d) ==
    _build_segment(SEGMENT_RFF,
        << <<"O","N">> \o CS
               \o _escape_segment_value(sanitize_value(d.reference, FALSE, 0)) >>)

\* the segments generate_invoic appends between the message header and the
\* party segments
DocumentSegments(d) ==
    <<BgmSegment(d), DtmSegment(d)>>
        \o (IF Has(d, "currency") THEN <<CuxSegment(d)>> ELSE <<>>)
        \o (IF Has(d, "reference") THEN <<RffSegment(d)>> ELSE <<>>)

\* _generate_party_segments, one party: the street and city as escaped
PartyStreet(party) ==
    _escape_segment_value(
        sanitize_value(party.street, TRUE, MAX_ADDRESS_LINE_LENGTH))

PartyCity(party) ==
    _escape_segment_value(sanitize_value(party.city, TRUE, MAX_CITY_LENGTH))

\* whether building this party's segment raises (the character-set check of
\* the escaped street and city)
PartyRaises(party, character_set) ==
    \/ Has(party, "street")
         /\ ~ validate_character_set(PartyStreet(party), character_set)
    \/ Has(party, "city")
         /\ ~ validate_character_set(PartyCity(party), character_set)

NonEmpty(parts) == SelectSeq(parts, LAMBDA e : e # <<>>)

PartySegment(party) ==
    LET qualifier == sanitize_value(party.qualifier, TRUE, 0)
        party_id == _escape_segment_value(sanitize_value(party.id, FALSE, 0))
        name == IF Has(party, "name")
                THEN _escape_segment_value(
                         sanitize_value(party.name, TRUE, MAX_NAME_LENGTH))
                ELSE <<>>
        address_elements ==
            (IF Has(party, "street") THEN <<PartyStreet(party)>> ELSE <<>>)
            \o (IF Has(party, "city") THEN <<PartyCity(party)>> ELSE <<>>)
            \o (IF Has(party, "country")
                THEN <<sanitize_value(party.country, TRUE, MAX_COUNTRY_LENGTH)>>
                ELSE <<>>)
        elements ==
            <<qualifier, party_id, <<"9","1">>, name>>
            \o (IF address_elements # <<>>
                THEN <<Join(NonEmpty(address_elements), CS)>>
                ELSE <<>>)
    IN  _build_segment(SEGMENT_NAD, elements)

\* _generate_party_segments: parties in input order
_generate_party_segments(parties) ==
    [i \in DOMAIN parties |-> PartySegment(parties[i])]

(***************************************************************************)
(* _process_items.                                                         *)
(***************************************************************************)
ZERO_00 == [c |-> 0, e |-> -2]

ItemQuantity(item) == Decimal(sanitize_value(item.quantity, FALSE, 0))
ItemPrice(item) == Decimal(sanitize_value(item.price, FALSE, 0))
ItemTaxRate(item) ==
    IF Has(item, "tax_rate")
    THEN Decimal(sanitize_value(item.tax_rate, FALSE, 0))
    ELSE Decimal(<<"0">>)
ItemUnit(item) ==
    IF Has(item, "unit") THEN sanitize_value(item.unit, TRUE, 0)
    ELSE <<"E","A">>

\* line_total = price * quantity
LineTotal(item) == DecMul(ItemPrice(item), ItemQuantity(item))

\* tax_value = (line_total * tax_rate) / Decimal("100")
TaxValue(item) == DecDiv100(DecMul(LineTotal(item), ItemTaxRate(item)))

\* LinSegment with the sequence number counted from zero
LinSegmentZeroBased(item, index) ==
    _build_segment(SEGMENT_LIN,
        << NatStr(index - 1),
           <<>>,
           _escape_segment_value(sanitize_value(item.product_code, TRUE, 0))
               \o CS \o <<"E","N">> >>)

LinSegment(item, index) ==
    _build_segment(SEGMENT_LIN,
        << NatStr(index),
           <<>>,
           _escape_segment_value(sanitize_value(item.product_code, TRUE, 0))
               \o CS \o <<"E","N">> >>)

ImdSegment(item) ==
    _build_segment(SEGMENT_IMD,
        << <<"F">>, <<>>, <<>>, <<>>,
           _escape_segment_value(sanitize_value(item.description, TRUE, 0)) >>)

\* the quantity is written with str(), the price with the fixed precision
QtySegment(item) ==
    _build_segment(SEGMENT_QTY,
        << <<"4","7">> \o CS \o DecimalStr(ItemQuantity(item)) \o CS
               \o ItemUnit(item) >>)

PriSegment(item) ==
    _build_segment(SEGMENT_PRI,
        << <<"A","A","A">> \o CS
               \o FormatFixed(ItemPrice(item), cfg.precision) \o CS
               \o ItemUnit(item) >>)

TaxSegment(item) ==
    _build_segment(SEGMENT_TAX,
        << <<"7">>, VAT_TAX_CATEGORY, <<>>, <<>>,
           FormatFixed(ItemTaxRate(item), cfg.precision), <<"S">> >>)

MoaTaxSegment(item) ==
    _build_segment(SEGMENT_MOA,
        << <<"1","2","5">> \o CS
               \o FormatFixed(TaxValue(item), cfg.precision) >>)

\* the block of one item: LIN, IMD, QTY, PRI and, with a tax rate above
\* zero, TAX and MOA 125
ItemSegments(item, index) ==
    <<LinSegment(item, index), ImdSegment(item), QtySegment(item),
      PriSegment(item)>>
        \o (IF ItemTaxRate(item).c > 0
            THEN <<TaxSegment(item), MoaTaxSegment(item)>>
            ELSE <<>>)

\* the loop of _process_items from item `index` on, given the running
\* totals and the segments so far
RECURSIVE ProcessFrom(_, _, _)
ProcessFrom(items, index, acc) ==
    IF index > Len(items) THEN acc
    ELSE LET item == items[index]
             taxed == ItemTaxRate(item).c > 0
         IN  ProcessFrom(items, index + 1,
                 [total_amount |-> DecAdd(acc.total_amount, LineTotal(item)),
                  total_tax |-> IF taxed
                                THEN DecAdd(acc.total_tax, TaxValue(item))
                                ELSE acc.total_tax,
                  segments |-> acc.segments \o ItemSegments(item, index)])

_process_items(items) ==
    ProcessFrom(items, 1,
        [total_amount |-> ZERO_00, total_tax |-> ZERO_00, segments |-> <<>>])

(***************************************************************************)
(* _generate_allowance_segments, _generate_monetary_segments and           *)
(* _generate_payment_segments.                                             *)
(***************************************************************************)
AllowanceSegments(allowance) ==
    LET indicator == sanitize_value(allowance.indicator, TRUE, 0)
        amount == Decimal(sanitize_value(allowance.amount, FALSE, 0))
        description == IF Has(allowance, "description")
                       THEN sanitize_value(allowance.description, TRUE, 0)
                       ELSE <<>>
    IN  << _build_segment(SEGMENT_ALC,
               << indicator, <<>>, <<>>, <<>>,
                  <<"8">> \o CS \o _escape_segment_value(description) >>),
           _build_segment(SEGMENT_MOA,
               << <<"8">> \o CS \o FormatFixed(amount, cfg.precision) >>) >>

RECURSIVE _generate_allowance_segments(_)
_generate_allowance_segments(allowances) ==
    IF allowances = <<>> THEN <<>>
    ELSE AllowanceSegments(Head(allowances))
             \o _generate_allowance_segments(Tail(allowances))

_generate_monetary_segments(total_amount, total_tax) ==
    LET grand_total == DecAdd(total_amount, total_tax)
    IN  << _build_segment(SEGMENT_MOA,
               << <<"8","6">> \o CS
                      \o FormatFixed(total_amount, cfg.precision) >>),
           _build_segment(SEGMENT_MOA,
               << <<"1","7","6">> \o CS
                      \o FormatFixed(total_tax, cfg.precision) >>),
           _build_segment(SEGMENT_MOA,
               << <<"9">> \o CS
                      \o FormatFixed(grand_total, cfg.precision) >>) >>

_generate_payment_segments(payment_terms) ==
    IF Has(payment_terms, "due_date")
    THEN LET payment_method ==
                 IF Has(payment_terms, "method")
                 THEN sanitize_value(payment_terms.method, FALSE, 0)
                 ELSE BANK_TRANSFER_PAYMENT
         IN  << _build_segment(SEGMENT_PAT, << <<"1">>, <<>>, payment_method >>),
                _build_segment(SEGMENT_DTM,
                    << <<"1","3">> \o CS \o payment_terms.due_date \o CS
                           \o <<"1","0","2">> >>) >>
    ELSE <<>>

\* the UNT segment: the count is the length of the whole list plus one
UntSegment(d, segs) ==
    _build_segment(SEGMENT_UNT,
        << NatStr(Len(segs) + 1),
           _escape_segment_value(sanitize_value(d.message_ref, FALSE, 0)) >>)

\* UnzSegment with the message reference whatever the control reference
UnzSegmentFromMessageRef(d, interchange_control_ref) ==
    _build_segment(SEGMENT_UNZ,
        << <<"1">>, sanitize_value(d.message_ref, FALSE, 0) >>)

UnzSegment(d, interchange_control_ref) ==
    _build_segment(SEGMENT_UNZ,
        << <<"1">>, ControlRef(d, interchange_control_ref) >>)

\* "\n".join(segments) + "\n"
JoinMessage(segs) == Join(segs, <<NL>>) \o <<NL>>

(***************************************************************************)
(* The inputs: configurations, invoice records and call arguments.         *)
(***************************************************************************)
DefaultConfig ==
    [data_separator |-> "+", component_separator |-> ":",
     segment_terminator |-> "'", precision |-> DEFAULT_PRECISION]

\* a terminator other than the apostrophe
TildeConfig == [DefaultConfig EXCEPT !.segment_terminator = "~"]

\* the apostrophe as data separator, another terminator
ApostropheConfig ==
    [DefaultConfig EXCEPT !.data_separator = "'", !.segment_terminator = "~"]

Configs == {DefaultConfig, TildeConfig}
EscapeConfigs == {DefaultConfig, TildeConfig, ApostropheConfig}

InvoiceDate == <<"2","0","2","5","0","3","2","2">>
\* the day after InvoiceDate
LaterDate == <<"2","0","2","5","0","3","2","3">>

MessageRefs == {<<"M","1">>}
InvoiceNumbers ==
    {<<"I","1">>, <<"a","+","b">>, <<"A",NL,"U","N","H">>}

Buyer == [qualifier |-> <<"B","Y">>, id |-> <<"1">>]
Supplier ==
    [qualifier |-> <<"S","U">>, id |-> <<"2">>, name |-> <<"W"," ","I">>,
     street |-> <<"4"," ","A">>, city |-> <<"C">>, country |-> <<"U","S">>]
Invoicee == [qualifier |-> <<"I","V">>, id |-> <<"3">>, name |-> <<"D">>]
\* a street outside the UNOA repertoire
SupplierStar ==
    [qualifier |-> <<"S","U">>, id |-> <<"2">>, street |-> <<"A","*">>]

PartyLists ==
    {<<Buyer, Supplier>>, <<Supplier, Buyer, Invoicee>>,
     <<Buyer, SupplierStar>>}

Widget ==
    [product_code |-> <<"A","B">>, description |-> <<"W">>,
     quantity |-> <<"1","0">>, price |-> <<"2","5",".","5","0">>,
     tax_rate |-> <<"2","0">>, unit |-> <<"P","C","E">>]
Gadget ==
    [product_code |-> <<"a"," ","b">>, description |-> <<"g">>,
     quantity |-> <<"1">>, price |-> <<"0",".","1","2","5">>,
     tax_rate |-> <<"2","0">>]
Bulk ==
    [product_code |-> <<"C">>, description |-> <<"D">>,
     quantity |-> <<"1","E","+","2">>, price |-> <<"0">>]

\* a quantity of zero, and a negative one
Free ==
    [product_code |-> <<"F">>, description |-> <<"S">>,
     quantity |-> <<"0">>, price |-> <<"1">>]
Refund ==
    [product_code |-> <<"R">>, description |-> <<"S">>,
     quantity |-> <<"-","1">>, price |-> <<"1">>]

ItemPool == {Widget, Gadget, Bulk}

\* the item lists of 1..MaxItems items, and the two single items above
ItemLists ==
    UNION {[1..n -> ItemPool] : n \in 1..MaxItems}
        \cup {<<Free>>, <<Refund>>}

PaymentTerms ==
    {[due_date |-> LaterDate, method |-> BANK_TRANSFER_PAYMENT],
     [due_date |-> InvoiceDate, method |-> BANK_TRANSFER_PAYMENT],
     [method |-> CASH_PAYMENT]}

Discount ==
    [indicator |-> <<"A">>, amount |-> <<"1","0",".","0","0">>,
     description |-> <<"D","I","S","C">>]
Surcharge == [indicator |-> <<"C">>, amount |-> <<"5">>]

AllowanceLists == {<<>>, <<Discount>>, <<Surcharge, Discount>>}

\* a record with the optional keys in `present`
WithOptional(base, present, currency, reference, payment_terms, allowances) ==
    [k \in DOMAIN base \cup present |->
        IF k \in DOMAIN base THEN base[k]
        ELSE IF k = "currency" THEN currency
        ELSE IF k = "reference" THEN reference
        ELSE IF k = "payment_terms" THEN payment_terms
        ELSE allowances]

OptionalKeys == {"currency", "reference", "payment_terms", "allowances_charges"}

\* the records give the order reference together with the currency
OptionalKeySets ==
    {present \in SUBSET OptionalKeys :
        ("reference" \in present) = ("currency" \in present)}

Invoices ==
    {WithOptional([message_ref |-> m, invoice_number |-> n,
                   invoice_date |-> InvoiceDate, parties |-> ps, items |-> its],
                  present, <<"E","U","R">>, <<"P","O">>, pt, al) :
        m \in MessageRefs, n \in InvoiceNumbers, ps \in PartyLists,
        its \in ItemLists, present \in OptionalKeySets,
        pt \in PaymentTerms, al \in AllowanceLists}

VALID_ENCODINGS == {"utf-8", "ascii", "iso-8859-1"}

\* the clock at the call, and one minute on
Timestamp == <<"2","5","0","3","2","2",":","1","2","0","0">>
LaterTimestamp == <<"2","5","0","3","2","2",":","1","2","0","1">>

NoFile == [filename |-> <<>>, force |-> FALSE, file_encoding |-> "utf-8"]

\* calls that return the text without writing a file
Arguments ==
    {[interchange_control_ref |-> icr, application_ref |-> <<>>,
      character_set |-> cs, edi_version |-> DEFAULT_EDI_VERSION,
      file |-> NoFile] :
        icr \in {<<>>, <<"R","+","1">>}, cs \in {UNOA, UNOB}}

\* calls that name an output file
FileArguments ==
    {[interchange_control_ref |-> <<>>, application_ref |-> <<"A","P">>,
      character_set |-> UNOA, edi_version |-> DEFAULT_EDI_VERSION,
      file |-> [filename |-> <<"f">>, force |-> force, file_encoding |-> enc]] :
        force \in BOOLEAN,
        enc \in {"utf-8", "utf-16", "ascii", "iso-8859-1"}}

\* a character outside ASCII (U+00E9)
E_ACUTE == "é"

\* the records of the calls that name a file: an ASCII invoice number and
\* one that is not
FileInvoices ==
    {[d EXCEPT !.invoice_number = n] :
        d \in {i \in Invoices :
                  /\ i.invoice_number = <<"I","1">>
                  /\ Len(i.items) = 1
                  /\ DOMAIN i \cap OptionalKeys = {"currency", "reference"}},
        n \in {<<"I","1">>, <<E_ACUTE>>}}

\* the file: whether it exists, and the bytes it holds.  The byte of an
\* ASCII character is written as the character, another byte as its two
\* hexadecimal digits.
NoSuchFile == [exists |-> FALSE, content |-> <<>>]
OldFile == [exists |-> TRUE, content |-> <<"o","l","d">>]
Truncated == [exists |-> TRUE, content |-> <<>>]

\* str.encode under the encodings of VALID_ENCODINGS
EncodeChar(c, encoding) ==
    IF c # E_ACUTE THEN <<c>>
    ELSE IF encoding = "utf-8" THEN <<"C3", "A9">>
    ELSE <<"E9">>

\* the bytes of the characters one after the other (the text is halved to
\* keep the recursion shallow)
RECURSIVE Encode(_, _)
Encode(text, encoding) ==
    IF text = <<>> THEN <<>>
    ELSE IF Len(text) = 1 THEN EncodeChar(text[1], encoding)
    ELSE Encode(SubSeq(text, 1, Len(text) \div 2), encoding)
             \o Encode(SubSeq(text, Len(text) \div 2 + 1, Len(text)),
                       encoding)

\* whether the codec has a byte sequence for every character of the text
Encodable(text, encoding) ==
    encoding # "ascii" \/ E_ACUTE \notin Range(text)

(***************************************************************************)
(* generate_invoic, one action per step of its body.                       *)
(***************************************************************************)
Init ==
    /\ cfg \in Configs
    /\ \/ data \in Invoices /\ args \in Arguments /\ fs = NoSuchFile
       \/ data \in FileInvoices /\ args \in FileArguments
            /\ fs \in {NoSuchFile, OldFile}
    /\ pc = "validate"
    /\ segments = <<>>
    /\ totals = [total_amount |-> ZERO_00, total_tax |-> ZERO_00]
    /\ message = <<>>
    /\ error = "none"
    /\ esc_in = <<>>
    /\ esc_out = <<>>
    /\ now = Timestamp
    /\ earlier = <<>>

Raise(code) ==
    /\ pc' = "raised"
    /\ error' = code

\* the encoding check and _validate_invoice_data
Validate ==
    /\ pc = "validate"
    /\ IF args.file.file_encoding \notin VALID_ENCODINGS
       THEN Raise("invalid_file_encoding")
       ELSE LET result == _validate_invoice_data(data, args.character_set)
            IN  IF result = "ok"
                THEN pc' = "unb" /\ error' = error
                ELSE Raise(result)
    /\ UNCHANGED <<now, earlier, cfg, data, args, segments, totals, message, fs, esc_in,
                   esc_out>>

Append1(seg, next) ==
    /\ segments' = Append(segments, seg)
    /\ pc' = next
    /\ UNCHANGED <<now, earlier, cfg, data, args, totals, message, error, fs, esc_in,
                   esc_out>>

Extend(segs, next) ==
    /\ segments' = segments \o segs
    /\ pc' = next
    /\ UNCHANGED <<now, earlier, cfg, data, args, totals, message, error, fs, esc_in,
                   esc_out>>

InterchangeHeader ==
    /\ pc = "unb"
    /\ Append1(_generate_interchange_header(data,
                   args.interchange_control_ref, args.application_ref,
                   args.character_set, now), "unh")

MessageHeader ==
    /\ pc = "unh"
    /\ Append1(_generate_message_header(data, args.edi_version,
                                        args.character_set), "document")

\* BGM, DTM and the optional CUX and RFF
Document ==
    /\ pc = "document"
    /\ Extend(DocumentSegments(data), "parties")

\* Parties with the output file opened for writing before the segments
\* are built
PartiesAfterOpeningFile ==
    /\ pc = "parties"
    /\ IF \E i \in DOMAIN data.parties :
              PartyRaises(data.parties[i], args.character_set)
       THEN /\ Raise("invalid_characters")
            /\ fs' = IF args.file.filename = <<>> THEN fs
                     ELSE [exists |-> TRUE, content |-> <<>>]
            /\ UNCHANGED <<now, earlier, cfg, data, args, segments, totals,
                           message, esc_in, esc_out>>
       ELSE Extend(_generate_party_segments(data.parties), "items")

Parties ==
    /\ pc = "parties"
    /\ IF \E i \in DOMAIN data.parties :
              PartyRaises(data.parties[i], args.character_set)
       THEN /\ Raise("invalid_characters")
            /\ UNCHANGED <<now, earlier, cfg, data, args, segments, totals, message, fs,
                           esc_in, esc_out>>
       ELSE Extend(_generate_party_segments(data.parties), "items")

\* Items with the sanitized product codes written back into the record
ItemsSanitizingRecord ==
    /\ pc = "items"
    /\ LET result == _process_items(data.items)
       IN  /\ totals' = [total_amount |-> result.total_amount,
                         total_tax |-> result.total_tax]
           /\ segments' = segments \o result.segments
    /\ data' = [data EXCEPT !.items =
                   [k \in DOMAIN data.items |->
                       [data.items[k] EXCEPT !.product_code =
                           sanitize_value(data.items[k].product_code, TRUE, 0)]]]
    /\ pc' = "allowances"
    /\ UNCHANGED <<now, earlier, cfg, args, message, error, fs, esc_in,
                   esc_out>>

Items ==
    /\ pc = "items"
    /\ LET result == _process_items(data.items)
       IN  /\ totals' = [total_amount |-> result.total_amount,
                         total_tax |-> result.total_tax]
           /\ segments' = segments \o result.segments
    /\ pc' = "allowances"
    /\ UNCHANGED <<now, earlier, cfg, data, args, message, error, fs, esc_in, esc_out>>

\* Allowances with the first amount added to the running total
AllowancesChangingTotals ==
    /\ pc = "allowances"
    /\ LET allowances == IF Has(data, "allowances_charges")
                         THEN data.allowances_charges ELSE <<>>
       IN  /\ segments' = segments \o _generate_allowance_segments(allowances)
           /\ totals' =
                  IF allowances = <<>> THEN totals
                  ELSE [totals EXCEPT !.total_amount =
                           DecAdd(@, Decimal(sanitize_value(
                               allowances[1].amount, FALSE, 0)))]
    /\ pc' = "monetary"
    /\ UNCHANGED <<now, earlier, cfg, data, args, message, error, fs,
                   esc_in, esc_out>>

Allowances ==
    /\ pc = "allowances"
    /\ Extend(IF Has(data, "allowances_charges")
              THEN _generate_allowance_segments(data.allowances_charges)
              ELSE <<>>, "monetary")

Monetary ==
    /\ pc = "monetary"
    /\ Extend(_generate_monetary_segments(totals.total_amount,
                                          totals.total_tax), "payment")

Payment ==
    /\ pc = "payment"
    /\ Extend(IF Has(data, "payment_terms")
              THEN _generate_payment_segments(data.payment_terms)
              ELSE <<>>, "trailers")

\* UNT, then UNZ
Trailers ==
    /\ pc = "trailers"
    /\ Extend(<<UntSegment(data, segments),
                UnzSegment(data, args.interchange_control_ref)>>, "assemble")

Assemble ==
    /\ pc = "assemble"
    /\ message' = JoinMessage(segments)
    /\ pc' = "save"
    /\ UNCHANGED <<now, earlier, cfg, data, args, segments, totals, error, fs, esc_in,
                   esc_out>>

\* the try block of _save_to_file: open(filename, "w") may fail and leave
\* the file as it is; once it has succeeded the file exists and is empty,
\* and f.write(content) fills it, fails for a character the codec cannot
\* encode, or fails with an OSError
WriteFile ==
    \/ Raise("permission_denied") /\ UNCHANGED fs
    \/ Raise("file_write_error") /\ UNCHANGED fs
    \/ IF ~ Encodable(message, args.file.file_encoding)
       THEN fs' = Truncated /\ Raise("unicode_encode_error")
       ELSE \/ /\ fs' = [exists |-> TRUE,
                          content |-> Encode(message, args.file.file_encoding)]
               /\ pc' = "returned"
               /\ UNCHANGED error
            \/ fs' = Truncated /\ Raise("file_write_error")

\* Save without the check for an existing file
SaveIgnoringForce ==
    /\ pc = "save"
    /\ IF args.file.filename = <<>>
       THEN pc' = "returned" /\ UNCHANGED <<error, fs>>
       ELSE WriteFile
    /\ UNCHANGED <<now, earlier, cfg, data, args, segments, totals, message,
                   esc_in, esc_out>>

\* _save_to_file when a filename is given, then the return
Save ==
    /\ pc = "save"
    /\ IF args.file.filename = <<>>
       THEN pc' = "returned" /\ UNCHANGED <<error, fs>>
       ELSE IF ~ args.file.force /\ fs.exists
       THEN Raise("file_exists") /\ UNCHANGED fs
       ELSE WriteFile
    /\ UNCHANGED <<now, earlier, cfg, data, args, segments, totals, message,
                   esc_in, esc_out>>

Next ==
    \/ Validate
    \/ InterchangeHeader
    \/ MessageHeader
    \/ Document
    \/ Parties
    \/ Items
    \/ Allowances
    \/ Monetary
    \/ Payment
    \/ Trailers
    \/ Assemble
    \/ Save

Spec == Init /\ [][Next]_vars

(***************************************************************************)
(* Two calls of generate_invoic with the same generator, record and        *)
(* arguments: the second is made once the first has returned, in the same  *)
(* minute or a later one.                                                  *)
(***************************************************************************)
RunsInit ==
    /\ Init
    /\ data \in FileInvoices
    /\ args \in Arguments

Rerun ==
    /\ pc = "returned"
    /\ earlier = <<>>
    /\ earlier' = message
    /\ now' \in {Timestamp, LaterTimestamp}
    /\ pc' = "validate"
    /\ segments' = <<>>
    /\ totals' = [total_amount |-> ZERO_00, total_tax |-> ZERO_00]
    /\ message' = <<>>
    /\ UNCHANGED <<cfg, data, args, error, fs, esc_in, esc_out>>

RunsNext ==
    \/ Next
    \/ Rerun

RunsSpec == RunsInit /\ [][RunsNext]_vars

(***************************************************************************)
(* A single call of _escape_segment_value, on every string of up to MaxLen *)
(* characters, under every configuration.                                  *)
(***************************************************************************)
EscapeAlphabet == {"A", "?", "'", "+", ":", " ", "~", "*"}

EscapeInputs == UNION {[1..n -> EscapeAlphabet] : n \in 0..MaxLen}

EscInit ==
    /\ cfg \in EscapeConfigs
    /\ esc_in \in EscapeInputs
    /\ esc_out = <<>>
    /\ pc = "escape"
    /\ data = <<>>
    /\ args = <<>>
    /\ segments = <<>>
    /\ totals = [total_amount |-> ZERO_00, total_tax |-> ZERO_00]
    /\ message = <<>>
    /\ error = "none"
    /\ fs = NoSuchFile
    /\ now = Timestamp
    /\ earlier = <<>>

Escape ==
    /\ pc = "escape"
    /\ esc_out' = _escape_segment_value(esc_in)
    /\ pc' = "escaped"
    /\ UNCHANGED <<now, earlier, cfg, data, args, segments, totals, message, error, fs,
                   esc_in>>

EscNext == Escape

EscSpec == EscInit /\ [][EscNext]_vars

(***************************************************************************)
(* Reading rendered text.                                                  *)
(***************************************************************************)
\* the inverse transform: a release character is removed and the character
\* after it kept as it is
RECURSIVE Unescape(_)
Unescape(s) ==
    IF s = <<>> THEN <<>>
    ELSE IF Head(s) = RELEASE
         THEN (IF Len(s) >= 2
               THEN <<s[2]>> \o Unescape(SubSeq(s, 3, Len(s)))
               ELSE <<>>)
         ELSE <<Head(s)>> \o Unescape(Tail(s))

\* how many times ch stands in s
Count(s, ch) == Cardinality({i \in DOMAIN s : s[i] = ch})

\* how many times ch stands in s outside an escape pair
RECURSIVE UnescapedCount(_, _)
UnescapedCount(s, ch) ==
    IF s = <<>> THEN 0
    ELSE IF Head(s) = RELEASE
         THEN (IF Len(s) >= 2 THEN UnescapedCount(SubSeq(s, 3, Len(s)), ch)
               ELSE 0)
         ELSE (IF Head(s) = ch THEN 1 ELSE 0) + UnescapedCount(Tail(s), ch)

\* how many escape pairs of s hold ch
RECURSIVE EscapedCount(_, _)
EscapedCount(s, ch) ==
    IF Len(s) < 2 THEN 0
    ELSE IF Head(s) = RELEASE
         THEN (IF s[2] = ch THEN 1 ELSE 0)
                  + EscapedCount(SubSeq(s, 3, Len(s)), ch)
         ELSE EscapedCount(Tail(s), ch)

StartsWith(s, prefix) ==
    Len(s) >= Len(prefix) /\ SubSeq(s, 1, Len(prefix)) = prefix

EndsWith(s, suffix) ==
    Len(s) >= Len(suffix)
        /\ SubSeq(s, Len(s) - Len(suffix) + 1, Len(s)) = suffix

\* the leading tag of a line or segment
Tag(s) == IF Len(s) >= 3 THEN SubSeq(s, 1, 3) ELSE s

\* the positions of the segments with this tag
TagPositions(segs, tag) == {i \in DOMAIN segs : Tag(segs[i]) = tag}

Escaped == pc = "escaped"
Built == pc \in {"assemble", "save", "returned"}
Returned == pc = "returned"

(***************************************************************************)
(* The escape operation (specification EscSpec).                           *)
(***************************************************************************)
REPETITION_SEPARATOR == "*"

\* the escape of one character as the specification words it
SpecifiedEscapeChar(c) ==
    IF c = RELEASE THEN <<RELEASE, RELEASE>>
    ELSE IF c \in {cfg.segment_terminator, cfg.data_separator,
                   cfg.component_separator, REPETITION_SEPARATOR}
    THEN <<RELEASE, c>>
    ELSE <<c>>

RECURSIVE SpecifiedEscape(_)
SpecifiedEscape(s) ==
    IF s = <<>> THEN <<>>
    ELSE SpecifiedEscapeChar(Head(s)) \o SpecifiedEscape(Tail(s))

\* C1: the escape operation doubles each release character, prefixes each
\* segment terminator, data-element separator, component separator and
\* repetition separator with one release character, and passes every other
\* character, the space included, through unchanged.
C1_EscapeAsSpecified == Escaped => esc_out = SpecifiedEscape(esc_in)

\* C4: escaping round-trips under every configuration the generator
\* accepts: the inverse transform applied to escape(s) yields s, and every
\* release character of s stands doubled in escape(s).
C4_EscapeRoundTrips ==
    Escaped =>
        /\ Unescape(esc_out) = esc_in
        /\ EscapedCount(esc_out, RELEASE) = Count(esc_in, RELEASE)

(***************************************************************************)
(* The generated message (specification Spec).                             *)
(***************************************************************************)
\* the only segment of the list with this tag
TheSegment(tag) == segments[CHOOSE i \in TagPositions(segments, tag) : TRUE]

\* the text of a segment from position `from` to before its last character
Inner(seg, from) == SubSeq(seg, from, Len(seg) - 1)

\* the first data element of a segment whose first element holds no
\* separator, and what follows that element's separator
FirstElement(inner) ==
    SubSeq(inner, 1, FirstOf(inner, {cfg.data_separator}) - 1)
AfterFirstElement(inner) ==
    SubSeq(inner, FirstOf(inner, {cfg.data_separator}) + 1, Len(inner))

\* C2: the count written in UNT is the number of segments from UNH through
\* the last segment before the trailer, plus one for the trailer; UNB is
\* not counted.
C2_TrailerCountsMessageSegments ==
    Built =>
        LET unh == CHOOSE i \in TagPositions(segments, SEGMENT_UNH) : TRUE
            unt == CHOOSE i \in TagPositions(segments, SEGMENT_UNT) : TRUE
        IN  FirstElement(Inner(segments[unt], 5)) = NatStr((unt - unh) + 1)

\* the data separators a builder puts into a segment with this tag: one
\* before each of its elements
BuilderDataSeparators(tag) ==
    CASE tag = SEGMENT_UNB -> {6}
      [] tag = SEGMENT_TAX -> {6}
      [] tag \in {SEGMENT_IMD, SEGMENT_ALC} -> {5}
      [] tag = SEGMENT_NAD -> {4, 5}
      [] tag \in {SEGMENT_BGM, SEGMENT_LIN, SEGMENT_PAT} -> {3}
      [] tag \in {SEGMENT_UNH, SEGMENT_UNT, SEGMENT_UNZ} -> {2}
      [] OTHER -> {1}

\* the component separators a builder puts into a segment with this tag
BuilderComponentSeparators(tag) ==
    CASE tag = SEGMENT_UNB -> {5}
      [] tag = SEGMENT_UNH -> {4}
      [] tag \in {SEGMENT_DTM, SEGMENT_CUX, SEGMENT_QTY, SEGMENT_PRI} -> {2}
      [] tag \in {SEGMENT_RFF, SEGMENT_LIN, SEGMENT_MOA, SEGMENT_ALC} -> {1}
      [] tag = SEGMENT_NAD -> {0, 1, 2}
      [] OTHER -> {0}

\* C3: in a returned message no terminator, data separator or component
\* separator that comes from caller-supplied data stands unescaped: the
\* unescaped ones of every segment are those its builder put there.
C3_NoUnescapedStructuralData ==
    Returned =>
        \A i \in DOMAIN segments :
            /\ UnescapedCount(segments[i], cfg.data_separator)
                   \in BuilderDataSeparators(Tag(segments[i]))
            /\ UnescapedCount(segments[i], cfg.component_separator)
                   \in BuilderComponentSeparators(Tag(segments[i]))
            /\ UnescapedCount(segments[i], cfg.segment_terminator) = 1

\* the place of a segment in the order of the specification, 0 for a
\* segment the order does not name
SegmentRank(seg) ==
    LET q(tag, qualifier) ==
            StartsWith(seg, tag \o <<cfg.data_separator>> \o qualifier \o CS)
    IN  CASE Tag(seg) = <<"U","N","A">> -> 1
          [] Tag(seg) = SEGMENT_UNB -> 2
          [] Tag(seg) = SEGMENT_UNH -> 3
          [] Tag(seg) = SEGMENT_BGM -> 4
          [] q(SEGMENT_DTM, <<"1","3","7">>) -> 5
          [] Tag(seg) = SEGMENT_PAT \/ q(SEGMENT_DTM, <<"1","3">>) -> 6
          [] Tag(seg) = SEGMENT_CUX -> 7
          [] Tag(seg) = SEGMENT_NAD -> 8
          [] Tag(seg) \in {SEGMENT_LIN, SEGMENT_IMD, SEGMENT_QTY, SEGMENT_PRI,
                           SEGMENT_TAX}
               \/ q(SEGMENT_MOA, <<"1","2","5">>) -> 9
          [] q(SEGMENT_MOA, <<"8","6">>) \/ q(SEGMENT_MOA, <<"1","7","6">>)
               \/ q(SEGMENT_MOA, <<"9">>) -> 10
          [] Tag(seg) = SEGMENT_UNT -> 11
          [] Tag(seg) = SEGMENT_UNZ -> 12
          [] OTHER -> 0

\* C5: a generated message lists its segments in the order of the
\* specification: UNA first, then UNB, UNH, BGM, the issue date, the
\* payment terms and due date, the currency, the parties, the item blocks,
\* the monetary summary, UNT and UNZ.
C5_FixedSegmentOrder ==
    Returned =>
        /\ Tag(segments[1]) = <<"U","N","A">>
        /\ \A i, j \in DOMAIN segments :
               (i < j /\ SegmentRank(segments[i]) # 0
                      /\ SegmentRank(segments[j]) # 0)
                   => SegmentRank(segments[i]) <= SegmentRank(segments[j])

\* the lines of the returned text
Lines == Split(message, NL)

\* C6: the returned text, split on the line separator, has exactly one line
\* with the leading tag UNH, one with UNT, one with UNB and one with UNZ.
C6_OneLinePerEnvelopeTag ==
    Returned =>
        \A tag \in {SEGMENT_UNH, SEGMENT_UNT, SEGMENT_UNB, SEGMENT_UNZ} :
            Cardinality(TagPositions(Lines, tag)) = 1

\* C7: every line of the returned text after the first ends with the
\* configured segment terminator (the text ends with a line separator, so
\* the piece after it is no line).
C7_EveryLineTerminated ==
    Returned =>
        \A i \in 2..(Len(Lines) - 1) :
            EndsWith(Lines[i], <<cfg.segment_terminator>>)

\* C8: the message reference written in UNT is the one written in UNH, and
\* the interchange reference written in UNZ is the one written in UNB.
C8_ReferencesStable ==
    Built =>
        LET untRef == AfterFirstElement(Inner(TheSegment(SEGMENT_UNT), 5))
            unzRef == AfterFirstElement(Inner(TheSegment(SEGMENT_UNZ), 5))
        IN  /\ StartsWith(TheSegment(SEGMENT_UNH),
                   SEGMENT_UNH \o <<cfg.data_separator>> \o untRef
                       \o <<cfg.data_separator>>)
            /\ EndsWith(TheSegment(SEGMENT_UNB),
                   <<cfg.data_separator>> \o unzRef \o <<cfg.data_separator>>
                       \o <<"1">> \o CS \o args.character_set
                       \o <<cfg.segment_terminator>>)

\* a message was returned for a call with an explicit control reference
C8_Witness ==
    Returned /\ args.interchange_control_ref # <<>> /\ Len(data.items) >= 2

AfterItems ==
    pc \in {"allowances", "monetary", "payment", "trailers", "assemble",
            "save", "returned"}

\* the LIN segments of the list, in order
LinSegments == SelectSeq(segments, LAMBDA seg : Tag(seg) = SEGMENT_LIN)

\* a LIN segment with this sequence number and this identifier text
LinText(k, identifier) ==
    SEGMENT_LIN \o <<cfg.data_separator>> \o NatStr(k)
        \o <<cfg.data_separator, cfg.data_separator>>
        \o _escape_segment_value(identifier) \o CS \o <<"E","N">>
        \o <<cfg.segment_terminator>>

\* C9 as stated: with N items there are exactly N LIN segments, in input
\* order, the k-th with the sequence number k and the identifier of the
\* k-th input item.
C9_LinCarriesInputIdentifier ==
    AfterItems =>
        /\ Len(LinSegments) = Len(data.items)
        /\ \A k \in DOMAIN data.items :
               LinSegments[k] = LinText(k, data.items[k].product_code)

\* C9 as amended: with N items there are exactly N LIN segments, in input
\* order, the k-th with the sequence number k and the identifier of the
\* k-th input item trimmed and in upper case.
C9_LinCarriesSanitizedIdentifier ==
    AfterItems =>
        /\ Len(LinSegments) = Len(data.items)
        /\ \A k \in DOMAIN data.items :
               LinSegments[k] =
                   LinText(k, Upper(Strip(data.items[k].product_code)))

\* a message was returned for several items, one with a lower-case
\* identifier
C9_Witness ==
    /\ Returned
    /\ Len(data.items) >= 2
    /\ \E k \in DOMAIN data.items :
           Upper(data.items[k].product_code) # data.items[k].product_code

\* the exact sum over the items of quantity times price
RECURSIVE ExactSubtotal(_)
ExactSubtotal(items) ==
    IF items = <<>> THEN [c |-> 0, e |-> 0]
    ELSE DecAdd(DecMul(Decimal(Strip(Head(items).quantity)),
                       Decimal(Strip(Head(items).price))),
                ExactSubtotal(Tail(items)))

\* the coefficient of d at exponent -places, rounded half up
QuantizeHalfUp(d, places) ==
    IF d.e >= 0 - places THEN d.c * Pow10(d.e + places)
    ELSE LET unit == Pow10(0 - places - d.e)
         IN  (d.c \div unit) + (IF 2 * (d.c % unit) >= unit THEN 1 ELSE 0)

AfterMonetary ==
    pc \in {"payment", "trailers", "assemble", "save", "returned"}

\* the segments that carry this MOA qualifier
MoaSegments(qualifier) ==
    SelectSeq(segments,
        LAMBDA seg : StartsWith(seg, SEGMENT_MOA \o <<cfg.data_separator>>
                                         \o qualifier \o CS))

\* C10: the value of the line-items subtotal segment is the exact sum of
\* quantity times price over the items, rounded half up to the configured
\* precision.
C10_SubtotalRoundedHalfUp ==
    AfterMonetary =>
        /\ Len(MoaSegments(<<"8","6">>)) = 1
        /\ Inner(MoaSegments(<<"8","6">>)[1], 8) =
               FixedStr(QuantizeHalfUp(ExactSubtotal(data.items),
                                       cfg.precision), cfg.precision)

\* the value a MOA segment with this qualifier carries
MoaValue(qualifier) ==
    Inner(MoaSegments(qualifier)[1], Len(SEGMENT_MOA) + Len(qualifier) + 3)

\* C11: the value of the grand-total segment is the value of the subtotal
\* segment plus the value of the tax-amount segment, the two rounded values
\* added with no further rounding.
C11_GrandTotalAddsRoundedValues ==
    AfterMonetary =>
        MoaValue(<<"9">>) =
            FormatFixed(DecAdd(Decimal(MoaValue(<<"8","6">>)),
                               Decimal(MoaValue(<<"1","7","6">>))),
                        cfg.precision)

\* C12: a second call of generate_invoic on the same record, with the same
\* references and configuration, returns the text the first call returned,
\* whenever it is made.
C12_RerunReturnsSameText ==
    (Returned /\ earlier # <<>>) => message = earlier

IsZero(value) ==
    IsDecimal(Strip(value)) /\ Decimal(Strip(value)).c = 0

Validated == pc # "validate"

\* C13: an invoice with an item of quantity exactly 0 fails validation and
\* no message is generated for it, while a price of exactly 0 is no reason
\* to reject.
C13_ZeroQuantityRejected ==
    Validated =>
        /\ (\E k \in DOMAIN data.items : IsZero(data.items[k].quantity))
               => (pc = "raised" /\ segments = <<>>)
        /\ error = "invalid_price"
               => \E k \in DOMAIN data.items : ~ IsZero(data.items[k].price)

\* C14: an invoice with two items of the same identifier is rejected by
\* validation with a duplicate-identifier error and no message is generated
\* for it.
C14_DuplicateIdentifierRejected ==
    (/\ Validated
     /\ \E i, j \in DOMAIN data.items :
            i < j /\ data.items[i].product_code = data.items[j].product_code)
        => (pc = "raised" /\ error = "duplicate_identifier"
                /\ segments = <<>>)

DueDate ==
    IF Has(data, "payment_terms") /\ Has(data.payment_terms, "due_date")
    THEN data.payment_terms.due_date
    ELSE <<>>

\* C15: an invoice whose due date is its invoice date is rejected by
\* validation with a due-date-ordering error, and with the due date one day
\* later no error about the due date is raised.
C15_DueDateAfterInvoiceDate ==
    Validated =>
        /\ DueDate = data.invoice_date
               => (pc = "raised" /\ error = "due_date_ordering")
        /\ (data.invoice_date = InvoiceDate /\ DueDate = LaterDate)
               => error \notin {"due_date_ordering", "invalid_due_date"}

\* control characters of the range 0x00-0x1F
ControlCharacters == {"\n", "\t", "\r", "\f"}

\* C16: no control character of an input string field, wherever it stands
\* in the value, appears in a rendered segment of the returned message.
C16_NoControlCharacterRendered ==
    Returned =>
        \A i \in DOMAIN segments :
            Range(segments[i]) \cap ControlCharacters = {}

\* the positions of the party segments with this qualifier
PartyPositions(qualifier) ==
    {i \in DOMAIN segments :
        StartsWith(segments[i],
            SEGMENT_NAD \o <<cfg.data_separator>> \o qualifier
                \o <<cfg.data_separator>>)}

\* C17: the returned message has exactly one party segment for the buyer
\* and exactly one for the seller, the buyer's before the seller's, in
\* whatever order the input lists the parties.
C17_BuyerBeforeSeller ==
    Returned =>
        /\ Cardinality(PartyPositions(<<"B","Y">>)) = 1
        /\ Cardinality(PartyPositions(<<"S","U">>)) = 1
        /\ \A b \in PartyPositions(<<"B","Y">>) :
               \A su \in PartyPositions(<<"S","U">>) : b < su

\* C18: no step of generate_invoic, in a call that returns or in one that
\* raises, changes the caller's invoice record.
C18_RecordNotMutated == [][data' = data]_vars

\* a call on a record with every optional part has returned
C18_Witness ==
    /\ Returned
    /\ Has(data, "payment_terms")
    /\ Has(data, "allowances_charges")
    /\ Len(data.items) >= 2

\* C19: no step before the final save touches the output file, and a call
\* that raises in validation or while building segments has assembled no
\* message text.
C19_FailFast ==
    [][/\ pc # "save" => fs' = fs
       /\ (pc # "save" /\ pc' = "raised") => message' = <<>>]_vars

\* a call that names an existing output file has raised while building the
\* party segments
C19_Witness ==
    /\ pc = "raised"
    /\ error = "invalid_characters"
    /\ segments # <<>>
    /\ args.file.filename # <<>>
    /\ fs = OldFile

\* the exact sum over the items of line total times tax rate over 100
RECURSIVE ExactTax(_)
ExactTax(items) ==
    IF items = <<>> THEN [c |-> 0, e |-> 0]
    ELSE LET item == Head(items)
             rate == IF Has(item, "tax_rate")
                     THEN Decimal(Strip(item.tax_rate))
                     ELSE [c |-> 0, e |-> 0]
         IN  DecAdd(DecDiv100(DecMul(DecMul(Decimal(Strip(item.price)),
                                            Decimal(Strip(item.quantity))),
                                     rate)),
                    ExactTax(Tail(items)))

\* the allowances and charges of the record
AllowancesOf(d) ==
    IF Has(d, "allowances_charges") THEN d.allowances_charges ELSE <<>>

\* the last position of a segment of an item block
LastItemPosition ==
    CHOOSE i \in DOMAIN segments :
        /\ SegmentRank(segments[i]) = 9
        /\ \A j \in DOMAIN segments :
               SegmentRank(segments[j]) = 9 => j <= i

\* a MOA segment with this qualifier and this value at the precision
MoaText(qualifier, value) ==
    SEGMENT_MOA \o <<cfg.data_separator>> \o qualifier \o CS
        \o FormatFixed(value, cfg.precision) \o <<cfg.segment_terminator>>

\* C20: the subtotal, total-tax and grand-total segments carry what the
\* items alone give, whatever allowances and charges are supplied; the k-th
\* allowance adds its own ALC segment followed by its own MOA 8 segment,
\* after the last item block and before the monetary summary.
C20_AllowancesLeaveSummary ==
    AfterMonetary =>
        LET last == LastItemPosition
            n == Len(AllowancesOf(data))
            subtotal == ExactSubtotal(data.items)
            tax == ExactTax(data.items)
        IN  /\ Len(segments) >= last + 2 * n + 3
            /\ \A k \in 1..n :
                   /\ StartsWith(segments[last + 2 * k - 1],
                          SEGMENT_ALC \o <<cfg.data_separator>>
                              \o Upper(Strip(AllowancesOf(data)[k].indicator))
                              \o <<cfg.data_separator>>)
                   /\ segments[last + 2 * k] =
                          MoaText(<<"8">>,
                              Decimal(Strip(AllowancesOf(data)[k].amount)))
            /\ segments[last + 2 * n + 1] = MoaText(<<"8","6">>, subtotal)
            /\ segments[last + 2 * n + 2] = MoaText(<<"1","7","6">>, tax)
            /\ segments[last + 2 * n + 3] =
                   MoaText(<<"9">>, DecAdd(subtotal, tax))
            /\ Cardinality(TagPositions(segments, SEGMENT_ALC)) = n

\* a message was returned for a record with a charge and an allowance
C20_Witness ==
    /\ Returned
    /\ Len(AllowancesOf(data)) = 2
    /\ AllowancesOf(data)[1].indicator # AllowancesOf(data)[2].indicator

\* bytes.decode, the inverse of Encode
\* the second byte of a two-byte sequence has no character of its own
Decode(bytes, encoding) ==
    LET utf8 == encoding = "utf-8"
        char(i) ==
            IF utf8 /\ bytes[i] = "C3" /\ i < Len(bytes)
                  /\ bytes[i + 1] = "A9"
            THEN E_ACUTE
            ELSE IF utf8 /\ bytes[i] = "A9" /\ i > 1 /\ bytes[i - 1] = "C3"
            THEN ""
            ELSE IF ~ utf8 /\ bytes[i] = "E9" THEN E_ACUTE
            ELSE bytes[i]
    IN  SelectSeq([i \in DOMAIN bytes |-> char(i)], LAMBDA c : c # "")

\* C21: the file is touched only by the last step, with the whole message
\* assembled; when a filename is given, the target exists and force is
\* false, that step raises and leaves the file as it is; and when the call
\* returns with a filename given, the file holds exactly the text returned.
C21_FilePersistence ==
    [][/\ fs' # fs =>
              /\ pc = "save"
              /\ args.file.filename # <<>>
              /\ message = JoinMessage(segments)
              /\ Tag(segments[Len(segments)]) = SEGMENT_UNZ
       /\ (pc = "save" /\ args.file.filename # <<>> /\ fs.exists
               /\ ~ args.file.force)
              => (pc' = "raised" /\ fs' = fs)
       /\ (pc' = "returned" /\ args.file.filename # <<>>)
              => /\ fs'.exists
                 /\ Decode(fs'.content, args.file.file_encoding) = message'
      ]_vars

\* a call with force set has returned a text with a character outside
\* ASCII and written it to the file
C21_Witness ==
    /\ Returned
    /\ args.file.filename # <<>>
    /\ args.file.force
    /\ E_ACUTE \in Range(message)

=============================================================================
